---- MODULE Spec2Model ----
(***************************************************************************)
(* SNMP-Modbus bridge: the ordered OID registry, the per-handler Modbus    *)
(* client with lazy connect, the value pipeline and the SNMP request       *)
(* callback (Get / GetNext), modelled from snmp_modbus_bridge.py.          *)
(*                                                                         *)
(* Python values are records [t, v]: t is the Python type, v the number;   *)
(* a float carries v in thousandths (23.5 is [t |-> "float", v |-> 23500]).*)
(* The Modbus client library is modelled by what the bridge observes of    *)
(* it: the `connected` flag, whether connect() succeeds, and what a read   *)
(* returns (a register word, an error reply, or an exception).             *)
(***************************************************************************)
EXTENDS Integers, Sequences, FiniteSets, TLC

\* ------------------------------------------------------------------ bounds
\* The largest number of variable bindings in one request.
MaxBinds == 2
\* The largest number of entries in a registry of the lookup specification.
MaxEntries == 3

\* OIDs the model draws registered and requested paths from.
PathUniverse == {<<1>>, <<1, 1>>, <<1, 2>>, <<2>>, <<2, 1>>}
\* Register addresses of the backend device.
Regs == {1, 2}
\* SNMP message versions api.PROTOCOL_MODULES knows (v1 = 0, v2c = 1).
PROTOCOL_MODULES == {0, 1}
\* Message versions it does not know (v3 = 3).
UnknownVersions == {3}

\* ----------------------------------------------------------- Python values
None == [t |-> "None", v |-> 0]
PyInt(n) == [t |-> "int", v |-> n]
\* An int above 2147483647, the largest number TLC computes with:
\* the int 2147483648 + d.
PyLong(d) == [t |-> "long", v |-> d]
PyFloat(milli) == [t |-> "float", v |-> milli]
PyBool(b) == [t |-> "bool", v |-> IF b THEN 1 ELSE 0]

\* ------------------------------------------------------------ tuple order
\* Python's comparison of two tuples of ints: the first index where they
\* differ decides; when there is none, the shorter tuple is the smaller.
TupleLess(a, b) ==
    LET n == IF Len(a) < Len(b) THEN Len(a) ELSE Len(b)
        d == {k \in 1..n : a[k] # b[k]}
    IN  IF d = {}
        THEN Len(a) < Len(b)
        ELSE LET k == CHOOSE i \in d : \A j \in d : i <= j
             IN  a[k] < b[k]

\* handler.__gt__(other): self.name > other.
HandlerGt(handler, other) == TupleLess(other, handler.name)

\* bisect.bisect(a, x) (bisect_right): 0-based insertion point after every
\* element that is not greater than x.  `x < a[mid]` on an ObjectName and a
\* handler is answered by the handler's reflected __gt__.
RECURSIVE bisect_loop(_, _, _, _)
bisect_loop(a, x, lo, hi) ==
    IF lo < hi
    THEN LET mid == (lo + hi) \div 2
         IN  IF HandlerGt(a[mid + 1], x)
             THEN bisect_loop(a, x, lo, mid)
             ELSE bisect_loop(a, x, mid + 1, hi)
    ELSE lo

\* Faulty variant, for sensitivity of the properties: bisect_left, the insertion point before the elements equal to x.
RECURSIVE bisect_left_loop(_, _, _, _)
bisect_left_loop(a, x, lo, hi) ==
    IF lo < hi
    THEN LET mid == (lo + hi) \div 2
         IN  IF TupleLess(a[mid + 1].name, x)
             THEN bisect_left_loop(a, x, mid + 1, hi)
             ELSE bisect_left_loop(a, x, lo, mid)
    ELSE lo

bisect_left(a, x) == bisect_left_loop(a, x, 0, Len(a))

bisect(a, x) == bisect_loop(a, x, 0, Len(a))

\* ---------------------------------------------------------- configuration
NoModbusConfig ==
    [present |-> FALSE, register_address |-> 0, unit_id |-> 0,
     function_code |-> 0, data_type |-> ""]

ModbusConfig(reg, fc, dt) ==
    [present |-> TRUE, register_address |-> reg, unit_id |-> 1,
     function_code |-> fc, data_type |-> dt]

\* data_processing; coefficient and offset in thousandths.
Direct == [type |-> "direct", has_coefficient |-> FALSE, coefficient |-> 0,
           offset |-> 0, decimal_places |-> 0]
Multiply(c, o, dp) ==
    [type |-> "multiply", has_coefficient |-> TRUE, coefficient |-> c,
     offset |-> o, decimal_places |-> dp]
\* A multiply descriptor that carries no 'coefficient' key.
MultiplyNoCoefficient ==
    [type |-> "multiply", has_coefficient |-> FALSE, coefficient |-> 0,
     offset |-> 0, decimal_places |-> 0]
CommunicationStatus ==
    [type |-> "communication_status", has_coefficient |-> FALSE,
     coefficient |-> 0, offset |-> 0, decimal_places |-> 0]

\* The configured value of a fixed-value system entry: a str or an int.
NoValue == [t |-> "None", v |-> 0, s |-> ""]
StrValue(s) == [t |-> "str", v |-> 0, s |-> s]
IntValue(n) == [t |-> "int", v |-> n, s |-> ""]

\* One declaration of SYSTEM_OID_MAPPING (a fixed value).
SystemFixed(oid, dtype, value) ==
    [class |-> "SystemOIDHandler", oid |-> oid, type |-> "fixed_value",
     snmp_data_type |-> dtype, value |-> value,
     modbus_config |-> NoModbusConfig, data_processing |-> Direct]

\* Declarations of SYSTEM_OID_MAPPING of type uptime and utc_time.
SystemUptime(oid) ==
    [class |-> "SystemOIDHandler", oid |-> oid, type |-> "uptime",
     snmp_data_type |-> "TimeTicks", value |-> NoValue,
     modbus_config |-> NoModbusConfig, data_processing |-> Direct]
SystemUtcTime(oid) ==
    [class |-> "SystemOIDHandler", oid |-> oid, type |-> "utc_time",
     snmp_data_type |-> "OctetString", value |-> NoValue,
     modbus_config |-> NoModbusConfig, data_processing |-> Direct]

\* One declaration of SNMP_OID_MAPPING.
ModbusOID(oid, mc, dp, dtype) ==
    [class |-> "ModbusOIDHandler", oid |-> oid, type |-> "",
     snmp_data_type |-> dtype, value |-> NoValue,
     modbus_config |-> mc, data_processing |-> dp]

\* The configurations of the main specification.
\* error_value is SNMP_BRIDGE_CONFIG['error_value'] (-99998 when the file
\* does not set it).
\*  A: TCP; a text entry, a scaled register, a signed register as text, and
\*     the communication-status entry that has no register.
\*  B: RTU and a configured error_value of -1; a register whose multiply
\*     descriptor lacks its coefficient, a register with an unsupported
\*     function code, a coil.
\*  C: a backend type that is neither TCP nor RTU, and a declaration whose
\*     path cannot be parsed.
ConfigA ==
    [modbus_type |-> "TCP", error_value |-> -99998,
     timezone_offset |-> <<"+", "0", "0">>,
     system |-> << SystemFixed(<<1, 1>>, "OctetString", StrValue("bridge")) >>,
     snmp   |-> << ModbusOID(<<2>>, ModbusConfig(2, 3, "int16"), Direct,
                             "OctetString"),
                   ModbusOID(<<1, 2>>, ModbusConfig(1, 3, "uint16"),
                             Multiply(100, 0, 1), "Integer32"),
                   ModbusOID(<<2, 1>>, NoModbusConfig, CommunicationStatus,
                             "Integer32") >>]
ConfigB ==
    [modbus_type |-> "RTU", error_value |-> -1,
     timezone_offset |-> <<"+", "0", "0">>,
     system |-> << SystemFixed(<<2>>, "Integer", IntValue(3)) >>,
     snmp   |-> << ModbusOID(<<1>>, ModbusConfig(1, 4, "uint16"),
                             MultiplyNoCoefficient, "Gauge32"),
                   ModbusOID(<<1, 2>>, ModbusConfig(2, 5, "uint16"), Direct,
                             "Counter32"),
                   ModbusOID(<<2, 1>>, ModbusConfig(1, 1, "uint16"), Direct,
                             "OctetString") >>]
ConfigC ==
    [modbus_type |-> "ASCII", error_value |-> -99998,
     timezone_offset |-> <<"+", "0", "0">>,
     system |-> << >>,
     snmp   |-> << ModbusOID(<<>>, ModbusConfig(2, 3, "uint16"), Direct,
                             "Integer32"),
                   ModbusOID(<<1, 1>>, ModbusConfig(1, 3, "uint16"), Direct,
                             "OctetString"),
                   ModbusOID(<<2>>, NoModbusConfig, CommunicationStatus,
                             "Integer32") >> ]
\*  D: entries without a register that carry a multiply descriptor
\*     (processing_type = multiply and no register_address); a fixed value
\*     declared Integer whose text is not a number; the UTC time.
ConfigD ==
    [modbus_type |-> "TCP", error_value |-> -99998,
     timezone_offset |-> <<"+", "0", "8">>,
     system |-> << SystemUtcTime(<<1, 1>>),
                   SystemFixed(<<2>>, "Integer", StrValue("abc")) >>,
     snmp   |-> << ModbusOID(<<1>>, NoModbusConfig, Multiply(100000, 0, 0),
                             "Integer32"),
                   ModbusOID(<<1, 2>>, NoModbusConfig, Multiply(2000, 500, 1),
                             "OctetString"),
                   ModbusOID(<<2, 1>>, NoModbusConfig, Direct,
                             "Gauge32") >>]
\*  E: a path declared twice, once as a system entry and once as a register
\*     entry; the UTC time with a timezone offset that is not a number; the
\*     uptime.
ConfigE ==
    [modbus_type |-> "TCP", error_value |-> -99998,
     timezone_offset |-> <<"+", "x", "8">>,
     system |-> << SystemFixed(<<1, 2>>, "OctetString", StrValue("dup")),
                   SystemUtcTime(<<2>>),
                   SystemUptime(<<2, 1>>) >>,
     snmp   |-> << ModbusOID(<<1, 2>>, ModbusConfig(1, 3, "uint16"), Direct,
                             "Integer32") >>]
\* A TCP configuration whose entries have unsigned SNMP types: a signed
\* register, and a register scaled by -0.1.
ConfigF ==
    [modbus_type |-> "TCP",
     error_value |-> -99998,
     timezone_offset |-> <<"+", "0", "0">>,
     system |-> << >>,
     snmp   |-> << ModbusOID(<<1>>, ModbusConfig(2, 3, "int16"), Direct,
                             "Gauge32"),
                   ModbusOID(<<2>>, ModbusConfig(1, 3, "uint16"),
                             Multiply(-100, 0, 1), "Counter32") >>]
MainConfigs == {ConfigA, ConfigB, ConfigC, ConfigD, ConfigE, ConfigF}

\* ------------------------------------------------------------------ state
VARIABLES
    phase,            \* "boot" before main() built the registry, "serving",
                      \* "stopped" after main() returned, "killed"
    config,           \* the configuration the process was started with
    mib_handlers,     \* the sorted list of handler objects
    mib_handlers_idx, \* name -> position in mib_handlers of the handler object
    backend,          \* the Modbus device: reachable or not, its registers
    rx,               \* the datagram the callback handled last
    tx,               \* the reply it sent for it
    io,               \* the client-library calls the callback made for it
    before,           \* the handler objects as they were when it arrived
    pipe              \* one run of the value pipeline on a given raw value

vars == <<phase, config, mib_handlers, mib_handlers_idx, backend, rx, tx, io,
          before, pipe>>

\* ------------------------------------------------------------ SNMP values
\* A value built by one of api.PROTOCOL_MODULES[proto_ver]'s constructors.
SnmpInteger(n) == [type |-> "Integer", int |-> n, text |-> ""]
SnmpOctetString(s) == [type |-> "OctetString", int |-> 0, text |-> s]
SnmpGauge(n) == [type |-> "Gauge", int |-> n, text |-> ""]
SnmpCounter(n) == [type |-> "Counter", int |-> n, text |-> ""]
SnmpTimeTicks(n) == [type |-> "TimeTicks", int |-> n, text |-> ""]
\* The placeholder a request carries in each binding.
SnmpNull == [type |-> "Null", int |-> 0, text |-> ""]

\* The value reported when the Modbus read or the pipeline failed.
ReadFailureValue == SnmpInteger(-99998)
\* The value reported by Get for an OID that is not registered.
UndefinedOidValue == SnmpInteger(-99997)

\* str(n) of an int.
Digit(d) == <<"0", "1", "2", "3", "4", "5", "6", "7", "8", "9">>[d + 1]

RECURSIVE NatStr(_)
NatStr(n) == IF n < 10 THEN Digit(n) ELSE NatStr(n \div 10) \o Digit(n % 10)

IntStr(n) == IF n < 0 THEN "-" \o NatStr(-n) ELSE NatStr(n)

\* The multiple of `step` nearest to m, a tie going to the even multiple
\* (Python's round() and its float formatting).
RoundHalfEven(m, step) ==
    LET q == m \div step
        r == m % step
    IN  IF 2 * r < step THEN q * step
        ELSE IF 2 * r > step THEN (q + 1) * step
        ELSE IF q % 2 = 0 THEN q * step ELSE (q + 1) * step

\* int(x) of a float given in thousandths: truncation toward zero.
TruncMilli(m) == IF m >= 0 THEN m \div 1000 ELSE -((-m) \div 1000)

\* Faulty variant, for sensitivity of the properties: the nearest int.
PyIntOfRounded(pv) ==
    IF pv.t = "float" THEN RoundHalfEven(pv.v, 1000) \div 1000 ELSE pv.v

\* int(x) of a pipeline value.
PyIntOf(pv) == IF pv.t = "float" THEN TruncMilli(pv.v) ELSE pv.v

\* f"{x:.2f}" of a float given in thousandths.
Format2f(m) ==
    LET c == RoundHalfEven(m, 10) \div 10
        a == IF c < 0 THEN -c ELSE c
        frac == a % 100
    IN  (IF c < 0 THEN "-" ELSE "") \o NatStr(a \div 100) \o "."
        \o Digit(frac \div 10) \o Digit(frac % 10)

\* str(x) of a pipeline value that is not a float.
PyStr(pv) ==
    IF pv.t = "bool" THEN (IF pv.v = 1 THEN "True" ELSE "False")
    ELSE IntStr(pv.v)

\* ------------------------------------------------------ the value pipeline
\* raw_value > n, for n up to 2147483647.
Exceeds(raw_value, n) == raw_value.t = "long" \/ raw_value.v > n

\* raw_value - 65536
Minus65536(raw_value) ==
    IF raw_value.t = "long"
    THEN IF raw_value.v >= 65536 THEN PyLong(raw_value.v - 65536)
         ELSE PyInt(2147483647 - (65535 - raw_value.v))
    ELSE PyInt(raw_value.v - 65536)

\* raw_value - 4294967296
Minus4294967296(raw_value) ==
    IF raw_value.t = "long"
    THEN PyInt((raw_value.v - 2147483647) - 1)
    ELSE PyInt(((raw_value.v - 2147483647) - 2147483647) - 2)

\* Faulty variant, for sensitivity of the properties: the sign bit itself
\* is still taken as a magnitude.
convert_raw_data_type_off_by_one(self, raw_value) ==
    IF ~self.modbus_config.present THEN raw_value
    ELSE LET data_type == self.modbus_config.data_type
         IN  IF data_type = "int16"
             THEN IF Exceeds(raw_value, 32768)
                  THEN Minus65536(raw_value)
                  ELSE raw_value
             ELSE IF data_type = "int32"
             THEN IF Exceeds(raw_value, 2147483647)
                  THEN Minus4294967296(raw_value)
                  ELSE raw_value
             ELSE IF data_type = "float32"
             THEN PyFloat(raw_value.v * 1000)
             ELSE raw_value

\* ModbusOIDHandler._convert_raw_data_type.  float(raw_value) is modelled
\* for the values whose thousandths TLC can compute.
convert_raw_data_type(self, raw_value) ==
    IF ~self.modbus_config.present THEN raw_value
    ELSE LET data_type == self.modbus_config.data_type
         IN  IF data_type = "int16"
             THEN IF Exceeds(raw_value, 32767)
                  THEN Minus65536(raw_value)
                  ELSE raw_value
             ELSE IF data_type = "int32"
             THEN IF Exceeds(raw_value, 2147483647)
                  THEN Minus4294967296(raw_value)
                  ELSE raw_value
             ELSE IF data_type = "float32"
             THEN PyFloat(raw_value.v * 1000)
             ELSE raw_value

\* Faulty variant, for sensitivity of the properties: with no decimal places
\* the product is rounded to an int.
process_value_rounds_to_int(self, raw_value) ==
    IF raw_value = None THEN None
    ELSE LET processed_raw_value == convert_raw_data_type(self, raw_value)
             dp == self.data_processing
             units == IF processed_raw_value.t = "float"
                      THEN processed_raw_value.v \div 1000
                      ELSE processed_raw_value.v
         IN  IF dp.type = "multiply"
             THEN IF ~dp.has_coefficient
                  THEN None
                  ELSE LET product == units * dp.coefficient + dp.offset
                       IN  IF dp.decimal_places > 0 /\ dp.decimal_places < 3
                           THEN PyFloat(RoundHalfEven(product,
                                   IF dp.decimal_places = 1 THEN 100 ELSE 10))
                           ELSE PyInt(RoundHalfEven(product, 1000) \div 1000)
             ELSE IF dp.type = "direct" THEN processed_raw_value
             ELSE IF dp.type = "communication_status" THEN PyInt(1)
             ELSE processed_raw_value

\* ModbusOIDHandler._process_value
process_value(self, raw_value) ==
    IF raw_value = None THEN None
    ELSE LET processed_raw_value == convert_raw_data_type(self, raw_value)
             dp == self.data_processing
             units == IF processed_raw_value.t = "float"
                      THEN processed_raw_value.v \div 1000
                      ELSE processed_raw_value.v
         IN  IF dp.type = "multiply"
             THEN IF ~dp.has_coefficient
                  THEN None   \* KeyError, caught: return None
                  ELSE LET product == units * dp.coefficient + dp.offset
                       IN  IF dp.decimal_places > 0 /\ dp.decimal_places < 3
                           THEN PyFloat(RoundHalfEven(product,
                                   IF dp.decimal_places = 1 THEN 100 ELSE 10))
                           ELSE PyFloat(product)
             ELSE IF dp.type = "direct" THEN processed_raw_value
             ELSE IF dp.type = "communication_status" THEN PyInt(1)
             ELSE processed_raw_value

\* Faulty variant, for sensitivity of the properties: the failure value is encoded in the configured target kind.
convert_to_snmp_value_typed(self, processed_value) ==
    LET snmp_data_type == self.snmp_data_type
        v == IF processed_value = None THEN PyInt(-99998) ELSE processed_value
        int_value == PyIntOf(v)
    IN  IF snmp_data_type = "Integer32" THEN SnmpInteger(int_value)
        ELSE IF snmp_data_type = "OctetString"
        THEN IF v.t = "float" THEN SnmpOctetString(Format2f(v.v))
             ELSE SnmpOctetString(PyStr(v))
        ELSE IF snmp_data_type = "Gauge32" THEN SnmpGauge(int_value)
        ELSE IF snmp_data_type = "Counter32" THEN SnmpCounter(int_value)
        ELSE SnmpInteger(int_value)

\* ModbusOIDHandler._convert_to_snmp_value.  Gauge and Counter are unsigned:
\* their constructors raise on a negative number, which the except clause
\* turns into the read-failure value.
convert_to_snmp_value(self, processed_value) ==
    IF processed_value = None THEN SnmpInteger(-99998)
    ELSE LET snmp_data_type == self.snmp_data_type
             int_value == PyIntOf(processed_value)
         IN  IF snmp_data_type = "Integer32" THEN SnmpInteger(int_value)
             ELSE IF snmp_data_type = "OctetString"
             THEN IF processed_value.t = "float"
                  THEN SnmpOctetString(Format2f(processed_value.v))
                  ELSE SnmpOctetString(PyStr(processed_value))
             ELSE IF snmp_data_type = "Gauge32"
             THEN IF int_value < 0 THEN SnmpInteger(-99998)
                  ELSE SnmpGauge(int_value)
             ELSE IF snmp_data_type = "Counter32"
             THEN IF int_value < 0 THEN SnmpInteger(-99998)
                  ELSE SnmpCounter(int_value)
             ELSE SnmpInteger(int_value)

\* --------------------------------------------------- the Modbus client side
\* self.modbus_client: None, or a client object.  `gen` tells the objects a
\* handler has held apart: the first one it creates is 1.
NoClient == [present |-> FALSE, gen |-> 0, connected |-> FALSE]

\* What a register answers when the device rejects the read with an
\* exception response (result.isError()).
ExceptionResponse == -1

\* The library calls one handler invocation made: whether it constructed a
\* client, how many times it called connect(), how many reads it issued.
NoCalls == [created |-> FALSE, connect |-> 0, read |-> 0]

\* Faulty variant, for sensitivity of the properties: a client that is not connected is thrown away for a new one.
get_modbus_client_recreate(self) ==
    IF ~self.modbus_client.present \/ ~self.modbus_client.connected
    THEN IF config.modbus_type \in {"TCP", "RTU"}
         THEN [present |-> TRUE, gen |-> self.modbus_client.gen + 1,
               connected |-> FALSE]
         ELSE NoClient
    ELSE self.modbus_client

\* ModbusOIDHandler._get_modbus_client: the handler's own client, created on
\* first use for a TCP or RTU backend; None for any other backend type.
get_modbus_client(self) ==
    IF ~self.modbus_client.present
    THEN IF config.modbus_type \in {"TCP", "RTU"}
         THEN [present |-> TRUE, gen |-> self.modbus_client.gen + 1,
               connected |-> FALSE]
         ELSE NoClient
    ELSE self.modbus_client

\* Faulty variant, for sensitivity of the properties: a failed connect() is tried again twice.
connect_attempts_retry(client) == IF client.connected THEN 0 ELSE 3

\* The connect() calls made for a client that is not connected: one
\* `if not client.connect()`, no retry.
connect_attempts(client) == IF client.connected THEN 0 ELSE 1

\* ModbusOIDHandler._read_modbus_value from `client = self._get_modbus_client()`
\* on: the raw value (None on any failure), the handler's client afterwards,
\* and the library calls made.  connect() succeeds iff the device is
\* reachable; a read on an unreachable device raises and the library drops
\* the connection; a register whose answer is an exception response gives
\* result.isError().
read_with_client(self, client) ==
    LET created == client.present /\ ~self.modbus_client.present
        register == self.modbus_config.register_address
        function_code == self.modbus_config.function_code
    IN  IF ~client.present
        THEN [raw_value |-> None, client |-> self.modbus_client,
              calls |-> NoCalls]
        ELSE IF ~client.connected /\ ~backend.up
        THEN [raw_value |-> None, client |-> client,
              calls |-> [created |-> created,
                         connect |-> connect_attempts(client), read |-> 0]]
        ELSE
        LET linked == [client EXCEPT !.connected = TRUE]
            calls == [created |-> created,
                      connect |-> connect_attempts(client),
                      read |-> IF function_code \in {1, 2, 3, 4} THEN 1 ELSE 0]
        IN  IF function_code \notin {1, 2, 3, 4}
            THEN [raw_value |-> None, client |-> linked, calls |-> calls]
            ELSE IF ~backend.up
            THEN [raw_value |-> None,
                  client |-> [linked EXCEPT !.connected = FALSE],
                  calls |-> calls]
            ELSE IF register \notin Regs
                    \/ (function_code \in {3, 4}
                        /\ backend.regs[register] = ExceptionResponse)
            THEN [raw_value |-> None, client |-> linked, calls |-> calls]
            ELSE IF function_code \in {1, 2}
            THEN [raw_value |-> PyBool(backend.coils[register]),
                  client |-> linked, calls |-> calls]
            ELSE [raw_value |-> PyInt(backend.regs[register]),
                  client |-> linked, calls |-> calls]

\* Faulty variant, for sensitivity of the properties: a client that lost its connection is never connected again.
read_modbus_value_no_reconnect(self) ==
    IF ~self.modbus_config.present
    THEN [raw_value |-> PyInt(1), client |-> self.modbus_client,
          calls |-> NoCalls]
    ELSE IF self.modbus_client.present /\ ~self.modbus_client.connected
    THEN [raw_value |-> None, client |-> self.modbus_client,
          calls |-> NoCalls]
    ELSE read_with_client(self, get_modbus_client(self))

\* ModbusOIDHandler._read_modbus_value: an entry without modbus_config
\* returns 1 and touches no client.
read_modbus_value(self) ==
    IF ~self.modbus_config.present
    THEN [raw_value |-> PyInt(1), client |-> self.modbus_client,
          calls |-> NoCalls]
    ELSE read_with_client(self, get_modbus_client(self))

\* ------------------------------------------------------------ the handlers
\* ModbusOIDHandler.__init__ / SystemOIDHandler.__init__: the handler object
\* of one declaration.
NewHandler(oid_config) ==
    [class |-> oid_config.class, name |-> oid_config.oid,
     type |-> oid_config.type, value |-> oid_config.value,
     snmp_data_type |-> oid_config.snmp_data_type,
     modbus_config |-> oid_config.modbus_config,
     data_processing |-> oid_config.data_processing,
     modbus_client |-> NoClient, last_value |-> None, last_error |-> "None"]

\* Faulty variant, for sensitivity of the properties: the value of the last successful call is served again.
ModbusCallCached(self) ==
    IF self.last_value # None
    THEN [handler |-> self,
          value |-> convert_to_snmp_value(self, self.last_value),
          calls |-> NoCalls]
    ELSE LET got == read_modbus_value(self)
             processed_value == process_value(self, got.raw_value)
         IN  [handler |-> [self EXCEPT !.modbus_client = got.client,
                                       !.last_value = processed_value,
                                       !.last_error = IF processed_value = None
                                                      THEN "read failed"
                                                      ELSE "None"],
              value |-> convert_to_snmp_value(self, processed_value),
              calls |-> got.calls]

\* ModbusOIDHandler.__call__: read, process, convert, remember.
ModbusCall(self) ==
    LET got == read_modbus_value(self)
        processed_value == process_value(self, got.raw_value)
        snmp_value == convert_to_snmp_value(self, processed_value)
    IN  [handler |-> [self EXCEPT !.modbus_client = got.client,
                                  !.last_value = processed_value,
                                  !.last_error = IF processed_value = None
                                                 THEN "read failed"
                                                 ELSE "None"],
         value |-> snmp_value,
         calls |-> got.calls]

\* The decimal digits, for int() of a piece of text.
DigitChars == {"0", "1", "2", "3", "4", "5", "6", "7", "8", "9"}
DigitValue(c) == CHOOSE d \in 0..9 : Digit(d) = c
\* ''.join(chars)
RECURSIVE Join(_)
Join(chars) == IF chars = <<>> THEN "" ELSE Head(chars) \o Join(Tail(chars))

\* The clock as the handler reads it: hundredths of a second since the
\* handler was built, and the local time formatted '%Y%m%dT%H%M%S'.
UptimeTicks == 4200
LocalTime == "20100607T152000"

\* The utc_time branch: a timezone offset that starts with a sign has its
\* next two characters parsed by int() (which raises unless they are digits)
\* and made a datetime.timezone (which raises from 24 hours on).
UtcTimeRaises(tz) ==
    /\ tz # <<>>
    /\ Head(tz) \in {"+", "-"}
    /\ LET hh == SubSeq(tz, 2, IF Len(tz) < 3 THEN Len(tz) ELSE 3)
       IN  \/ hh = <<>>
           \/ \E k \in 1..Len(hh) : hh[k] \notin DigitChars
           \/ /\ Len(hh) = 2
              /\ DigitValue(hh[1]) * 10 + DigitValue(hh[2]) >= 24

\* Faulty variant, for sensitivity of the properties: a value that cannot be
\* converted goes out as its text, and the time without its offset.
SystemCallLenient(self) ==
    LET snmp_value ==
          IF self.type = "fixed_value"
          THEN IF self.snmp_data_type = "Integer" /\ self.value.t = "int"
               THEN SnmpInteger(self.value.v)
               ELSE SnmpOctetString(IF self.value.t = "int"
                                    THEN IntStr(self.value.v)
                                    ELSE self.value.s)
          ELSE IF self.type = "uptime" THEN SnmpTimeTicks(UptimeTicks)
          ELSE IF self.type = "utc_time"
          THEN IF UtcTimeRaises(config.timezone_offset)
               THEN SnmpOctetString(LocalTime)
               ELSE SnmpOctetString(LocalTime
                                    \o Join(config.timezone_offset))
          ELSE SnmpOctetString("Unknown Type")
    IN  [handler |-> self, value |-> snmp_value, calls |-> NoCalls]

\* SystemOIDHandler.__call__: the whole body runs in a try block whose
\* except clause returns OctetString("Error").
SystemCall(self) ==
    LET snmp_value ==
          IF self.type = "fixed_value"
          THEN IF self.snmp_data_type = "Integer"
               THEN IF self.value.t = "int"
                    THEN SnmpInteger(self.value.v)
                    ELSE SnmpOctetString("Error")  \* int() raised
               ELSE SnmpOctetString(IF self.value.t = "int"
                                    THEN IntStr(self.value.v)
                                    ELSE self.value.s)
          ELSE IF self.type = "uptime" THEN SnmpTimeTicks(UptimeTicks)
          ELSE IF self.type = "utc_time"
          THEN IF UtcTimeRaises(config.timezone_offset)
               THEN SnmpOctetString("Error")
               ELSE SnmpOctetString(LocalTime
                                    \o Join(config.timezone_offset))
          ELSE SnmpOctetString("Unknown Type")
    IN  [handler |-> self, value |-> snmp_value, calls |-> NoCalls]

\* handler(msg_ver), on the handler object the caller looked up (h: the
\* lookup is evaluated once, not at each mention of self).
Call(self) ==
    CHOOSE out \in {IF h.class = "ModbusOIDHandler" THEN ModbusCall(h)
                    ELSE SystemCall(h) : h \in {self}} : TRUE

\* ------------------------------------------------------- registry building
\* list.sort(key=lambda x: x.name): a stable sort by name, as insertion of
\* each handler after the handlers that are not greater than it.
RECURSIVE InsertSorted(_, _)
InsertSorted(s, h) ==
    IF s = <<>> THEN <<h>>
    ELSE IF TupleLess(h.name, Head(s).name) THEN <<h>> \o s
    ELSE <<Head(s)>> \o InsertSorted(Tail(s), h)

\* Faulty variant, for sensitivity of the properties: the handlers stay in
\* the order of their declaration.
SortOmitted(s) == s

RECURSIVE SortByName(_)
SortByName(s) ==
    IF s = <<>> THEN <<>>
    ELSE InsertSorted(SortByName(SubSeq(s, 1, Len(s) - 1)), s[Len(s)])

\* Whether the handler's constructor returns: the declared path is split at
\* its dots and each part goes through int(), which raises on an empty path
\* (kept as the empty tuple).
Buildable(oid_config) == oid_config.oid # <<>>

\* create_mib_handlers: the system handlers, then the Modbus handlers, each
\* built in a try block that logs and skips a declaration whose constructor
\* raises; then sorted.
create_mib_handlers(cfg) ==
    LET system == SelectSeq(cfg.system, Buildable)
        snmp == SelectSeq(cfg.snmp, Buildable)
    IN  SortByName([i \in 1..Len(system) |-> NewHandler(system[i])]
                   \o [i \in 1..Len(snmp) |-> NewHandler(snmp[i])])

\* {handler.name: handler for handler in mib_handlers}: a later handler of
\* the same name replaces an earlier one.  The dict holds the same objects
\* as the list, so it is kept as name -> position in the list.
build_idx(handlers) ==
    [n \in {handlers[i].name : i \in 1..Len(handlers)} |->
        CHOOSE i \in 1..Len(handlers) :
            /\ handlers[i].name = n
            /\ \A j \in 1..Len(handlers) : handlers[j].name = n => j <= i]

\* ------------------------------------------------------------- the callback
NoDatagram == [present |-> FALSE, ver |-> 0, kind |-> "", oids |-> <<>>]
NoReply == [present |-> FALSE, ver |-> 0, error_status |-> "",
            var_binds |-> <<>>, end_of_mib |-> <<>>]

\* The state the loop over the request's bindings carries along.
LoopStart(handlers) ==
    [handlers |-> handlers, var_binds |-> <<>>, pending_errors |-> <<>>,
     calls |-> <<>>]

\* Faulty variant, for sensitivity of the properties: the end-of-MIB index counts the exhausted bindings only.
GetNextBindOwnIndex(acc, oid, error_index) ==
    LET next_idx == bisect(acc.handlers, oid)
    IN  IF next_idx = Len(acc.handlers)
        THEN [acc EXCEPT
                !.var_binds = Append(@, [name |-> oid, value |-> SnmpNull]),
                !.pending_errors = Append(@, Len(acc.pending_errors) + 1),
                !.calls = Append(@, [h |-> 0, made |-> NoCalls])]
        ELSE LET r == Call(acc.handlers[next_idx + 1])
             IN  [acc EXCEPT
                    !.handlers[next_idx + 1] = r.handler,
                    !.var_binds = Append(@, [name |-> r.handler.name,
                                             value |-> r.value]),
                    !.calls = Append(@, [h |-> next_idx + 1,
                                         made |-> r.calls])]

\* One binding of a GETNEXT request.
GetNextBind(acc, oid, error_index) ==
    LET next_idx == bisect(acc.handlers, oid)
    IN  IF next_idx = Len(acc.handlers)
        THEN [acc EXCEPT
                !.var_binds = Append(@, [name |-> oid, value |-> SnmpNull]),
                !.pending_errors = Append(@, error_index),
                !.calls = Append(@, [h |-> 0, made |-> NoCalls])]
        ELSE LET r == Call(acc.handlers[next_idx + 1])
             IN  [acc EXCEPT
                    !.handlers[next_idx + 1] = r.handler,
                    !.var_binds = Append(@, [name |-> r.handler.name,
                                             value |-> r.value]),
                    !.calls = Append(@, [h |-> next_idx + 1,
                                         made |-> r.calls])]

\* Faulty variant, for sensitivity of the properties: once a binding of the request has failed, the bindings after it
\* are given the failure value without a read.
GetBindAfterFailure(acc, oid, error_index) ==
    IF oid \in DOMAIN mib_handlers_idx
    THEN LET i == mib_handlers_idx[oid]
             r == Call(acc.handlers[i])
             failed == \E k \in 1..Len(acc.var_binds) :
                          acc.var_binds[k].value = SnmpInteger(-99998)
         IN  IF failed
             THEN [acc EXCEPT
                     !.var_binds = Append(@, [name |-> oid,
                                              value |-> SnmpInteger(-99998)]),
                     !.calls = Append(@, [h |-> i, made |-> NoCalls])]
             ELSE [acc EXCEPT
                     !.handlers[i] = r.handler,
                     !.var_binds = Append(@, [name |-> oid, value |-> r.value]),
                     !.calls = Append(@, [h |-> i, made |-> r.calls])]
    ELSE [acc EXCEPT
            !.var_binds = Append(@, [name |-> oid,
                                     value |-> SnmpInteger(-99997)]),
            !.calls = Append(@, [h |-> 0, made |-> NoCalls])]

\* Faulty variant, for sensitivity of the properties: a missing OID is reported as an error at its index.
GetBindMissAsError(acc, oid, error_index) ==
    IF oid \in DOMAIN mib_handlers_idx
    THEN LET i == mib_handlers_idx[oid]
             r == Call(acc.handlers[i])
         IN  [acc EXCEPT
                !.handlers[i] = r.handler,
                !.var_binds = Append(@, [name |-> oid, value |-> r.value]),
                !.calls = Append(@, [h |-> i, made |-> r.calls])]
    ELSE [acc EXCEPT
            !.var_binds = Append(@, [name |-> oid, value |-> SnmpNull]),
            !.pending_errors = Append(@, error_index),
            !.calls = Append(@, [h |-> 0, made |-> NoCalls])]

\* One binding of a GET request.
GetBind(acc, oid, error_index) ==
    IF oid \in DOMAIN mib_handlers_idx
    THEN LET i == mib_handlers_idx[oid]
             r == Call(acc.handlers[i])
         IN  [acc EXCEPT
                !.handlers[i] = r.handler,
                !.var_binds = Append(@, [name |-> oid, value |-> r.value]),
                !.calls = Append(@, [h |-> i, made |-> r.calls])]
    ELSE [acc EXCEPT
            !.var_binds = Append(@, [name |-> oid,
                                     value |-> SnmpInteger(-99997)]),
            !.calls = Append(@, [h |-> 0, made |-> NoCalls])]

\* Faulty variant, for sensitivity of the properties: the bindings are served
\* from the last requested path to the first.
RECURSIVE BindLoopReversed(_, _, _, _)
BindLoopReversed(kind, oids, error_index, acc) ==
    IF error_index > Len(oids) THEN acc
    ELSE BindLoopReversed(kind, oids, error_index + 1,
            IF kind = "GetNext"
            THEN GetNextBind(acc, oids[Len(oids) - error_index + 1],
                             error_index)
            ELSE GetBind(acc, oids[Len(oids) - error_index + 1],
                         error_index))

\* for oid, val in get_varbinds(req_pdu): error_index += 1; ...
RECURSIVE BindLoop(_, _, _, _)
BindLoop(kind, oids, error_index, acc) ==
    IF error_index > Len(oids) THEN acc
    ELSE BindLoop(kind, oids, error_index + 1,
                  IF kind = "GetNext"
                  THEN GetNextBind(acc, oids[error_index], error_index)
                  ELSE GetBind(acc, oids[error_index], error_index))

\* Faulty variant, for sensitivity of the properties: a request of any other
\* kind is served as a GET.
HandleMessageAnyAsGet(msg) ==
    LET done == BindLoop(msg.kind, msg.oids, 1, LoopStart(mib_handlers))
    IN  [handlers |-> done.handlers,
         reply |-> [present |-> TRUE, ver |-> msg.ver,
                    error_status |-> "noError",
                    var_binds |-> done.var_binds,
                    end_of_mib |-> done.pending_errors],
         calls |-> done.calls]

\* The body of snmp_callback for one decoded message.
HandleMessage(msg) ==
    IF msg.kind \in {"Get", "GetNext"}
    THEN LET done == BindLoop(msg.kind, msg.oids, 1, LoopStart(mib_handlers))
         IN  [handlers |-> done.handlers,
              reply |-> [present |-> TRUE, ver |-> msg.ver,
                         error_status |-> "noError",
                         var_binds |-> done.var_binds,
                         end_of_mib |-> done.pending_errors],
              calls |-> done.calls]
    ELSE [handlers |-> mib_handlers,
          reply |-> [present |-> TRUE, ver |-> msg.ver,
                     error_status |-> "genErr",
                     var_binds |-> <<>>, end_of_mib |-> <<>>],
          calls |-> <<>>]

\* The lists of OIDs a request may carry.
RECURSIVE SeqsUpTo(_, _)
SeqsUpTo(S, n) ==
    IF n = 0 THEN {<<>>}
    ELSE LET shorter == SeqsUpTo(S, n - 1)
         IN  shorter \cup {Append(s, x) : s \in shorter, x \in S}

OidLists == SeqsUpTo(PathUniverse, MaxBinds) \ {<<>>}

\* The words a register may hold, and the coils (which the model keeps fixed).
RegValues == {235, 40000}
Coils == [r \in Regs |-> r = 1]
\* The registers that may answer with an exception response.
FaultyRegs == {1}

\* No run of the value pipeline is being followed.
NoPipeline == [stage |-> "none", self |-> NewHandler(ConfigA.snmp[1]),
               raw |-> None, typed |-> None, processed |-> None,
               snmp |-> SnmpNull]

\* ----------------------------------------------------------------- actions
InitWith(configs) ==
    /\ phase = "boot"
    /\ config \in configs
    /\ mib_handlers = <<>>
    /\ mib_handlers_idx = <<>>
    /\ backend = [up |-> TRUE, regs |-> [r \in Regs |-> 235],
                  coils |-> Coils]
    /\ rx = NoDatagram
    /\ tx = NoReply
    /\ io = <<>>
    /\ before = <<>>
    /\ pipe = NoPipeline

Init == InitWith(MainConfigs)

\* main(): build the registry and the exact-match index, then serve.
Startup ==
    /\ phase = "boot"
    /\ phase' = "serving"
    /\ mib_handlers' = create_mib_handlers(config)
    /\ mib_handlers_idx' = build_idx(mib_handlers')
    /\ UNCHANGED <<config, backend, rx, tx, io, before>>
    /\ UNCHANGED pipe

\* snmp_callback on a datagram of a known version, received once the reply
\* to the datagram before it has left: handle it and send the reply.
Request ==
    /\ phase = "serving"
    /\ ~rx.present
    /\ \E ver \in PROTOCOL_MODULES, kind \in {"Get", "GetNext", "Set"},
          oids \in OidLists :
         \E out \in {HandleMessage([present |-> TRUE, ver |-> ver,
                                     kind |-> kind, oids |-> oids])} :
             /\ rx' = [present |-> TRUE, ver |-> ver, kind |-> kind,
                       oids |-> oids]
             /\ mib_handlers' = out.handlers
             /\ tx' = out.reply
             /\ io' = out.calls
    /\ before' = mib_handlers
    /\ UNCHANGED <<phase, config, mib_handlers_idx, backend>>
    /\ UNCHANGED pipe

\* The datagrams the callback cannot decode: a message of an unknown
\* version, and a malformed message of a known one.
Undecodable ==
    {[present |-> TRUE, ver |-> ver, kind |-> "", oids |-> <<>>] :
        ver \in UnknownVersions}
    \cup {[present |-> TRUE, ver |-> ver, kind |-> "malformed",
           oids |-> <<>>] : ver \in PROTOCOL_MODULES}

\* Faulty variant, for sensitivity of the properties: the failure to decode
\* ends run_dispatcher, and main() with it.
DropDatagramStops ==
    /\ phase = "serving"
    /\ ~rx.present
    /\ rx' \in Undecodable
    /\ phase' = "stopped"
    /\ tx' = NoReply
    /\ io' = <<>>
    /\ before' = mib_handlers
    /\ UNCHANGED <<config, mib_handlers, mib_handlers_idx, backend>>
    /\ UNCHANGED pipe

\* snmp_callback on a datagram it cannot decode.  For an unknown version it
\* returns before the message is decoded; for a malformed message the
\* decoder raises out of the callback, which the dispatcher's event loop
\* logs.  Either way no reply is sent and nothing else happens.
DropDatagram ==
    /\ phase = "serving"
    /\ ~rx.present
    /\ rx' \in Undecodable
    /\ tx' = NoReply
    /\ io' = <<>>
    /\ before' = mib_handlers
    /\ UNCHANGED <<phase, config, mib_handlers, mib_handlers_idx, backend>>
    /\ UNCHANGED pipe

\* The reply has left; the dispatcher waits for the next datagram.
Delivered ==
    /\ rx.present
    /\ rx' = NoDatagram
    /\ tx' = NoReply
    /\ io' = <<>>
    /\ before' = <<>>
    /\ UNCHANGED <<phase, config, mib_handlers, mib_handlers_idx, backend>>
    /\ UNCHANGED pipe

\* The device becomes unreachable, or reachable again (between requests).
BackendDown ==
    /\ phase = "serving"
    /\ ~rx.present
    /\ backend.up
    /\ backend' = [backend EXCEPT !.up = FALSE]
    /\ UNCHANGED <<phase, config, mib_handlers, mib_handlers_idx, rx, tx, io,
                   before>>
    /\ UNCHANGED pipe

BackendUp ==
    /\ phase = "serving"
    /\ ~rx.present
    /\ ~backend.up
    /\ backend' = [backend EXCEPT !.up = TRUE]
    /\ UNCHANGED <<phase, config, mib_handlers, mib_handlers_idx, rx, tx, io,
                   before>>
    /\ UNCHANGED pipe

\* A register of the device takes another value, or starts or stops
\* answering with an exception response (between requests).
RegisterChange ==
    /\ phase = "serving"
    /\ ~rx.present
    /\ \E r \in Regs, w \in RegValues \cup {ExceptionResponse} :
         /\ w = ExceptionResponse => r \in FaultyRegs
         /\ backend.regs[r] # w
         /\ backend' = [backend EXCEPT !.regs[r] = w]
    /\ UNCHANGED <<phase, config, mib_handlers, mib_handlers_idx, rx, tx, io,
                   before>>
    /\ UNCHANGED pipe

\* ModbusOIDHandler.cleanup
cleanup(self) ==
    IF self.class = "ModbusOIDHandler" /\ self.modbus_client.present
       /\ self.modbus_client.connected
    THEN [self EXCEPT !.modbus_client.connected = FALSE]
    ELSE self

\* SIGINT between two datagrams: run_dispatcher raises KeyboardInterrupt,
\* main() catches it and its finally clause cleans every handler up.
Shutdown ==
    /\ phase = "serving"
    /\ ~rx.present
    /\ phase' = "stopped"
    /\ mib_handlers' = [i \in 1..Len(mib_handlers) |-> cleanup(mib_handlers[i])]
    /\ UNCHANGED <<config, mib_handlers_idx, backend, rx, tx, io, before>>
    /\ UNCHANGED pipe

\* SIGTERM: main() catches KeyboardInterrupt (SIGINT) only and installs no
\* signal handler, so the process ends at once and the finally clause of
\* main() does not run: no handler is cleaned up.
SigTerm ==
    /\ phase = "serving"
    /\ ~rx.present
    /\ phase' = "killed"
    /\ UNCHANGED <<config, mib_handlers, mib_handlers_idx, backend, rx, tx, io,
                   before>>
    /\ UNCHANGED pipe

Next ==
    \/ Startup
    \/ Request
    \/ DropDatagram
    \/ Delivered
    \/ BackendDown
    \/ BackendUp
    \/ RegisterChange
    \/ Shutdown
    \/ SigTerm

Spec == Init /\ [][Next]_vars


\* ------------------------------------------- the lookup specification
\* The same program started with any registry of at most MaxEntries paths
\* and polled while the device stays as it is: paths of length two are
\* fixed-value system entries, paths of length one are register entries,
\* and both lists are declared in descending order.
RECURSIVE DescSeq(_)
DescSeq(S) ==
    IF S = {} THEN <<>>
    ELSE LET m == CHOOSE x \in S : \A y \in S : y = x \/ TupleLess(y, x)
         IN  <<m>> \o DescSeq(S \ {m})

LookupConfig(S) ==
    LET sys == DescSeq({p \in S : Len(p) = 2})
        mod == DescSeq({p \in S : Len(p) # 2})
    IN  [modbus_type |-> "TCP", error_value |-> -99998,
     timezone_offset |-> <<"+", "0", "0">>,
         system |-> [i \in 1..Len(sys) |->
                        SystemFixed(sys[i], "OctetString", StrValue("x"))],
         snmp |-> [i \in 1..Len(mod) |->
                        ModbusOID(mod[i], ModbusConfig(1, 3, "uint16"),
                                  Direct, "Integer32")]]

LookupConfigs ==
    {LookupConfig(S) : S \in {T \in SUBSET PathUniverse :
                                 Cardinality(T) <= MaxEntries}}

InitLookup == InitWith(LookupConfigs)

NextLookup ==
    \/ Startup
    \/ Request
    \/ Delivered

SpecLookup == InitLookup /\ [][NextLookup]_vars


\* ------------------------------------------- the stepwise specification
\* The same callback taken one statement group at a time: the datagram is
\* decoded, each binding of the loop is served in turn, the reply is sent,
\* the callback returns.  rx is the request being handled, tx the reply
\* under construction (present once sent), io the calls of the bindings
\* served so far.
SerialConfigs == {ConfigA, ConfigB}

InitSerial == InitWith(SerialConfigs)

\* Faulty variant, for sensitivity of the properties: the callback is entered
\* for the next datagram while a request is still being served.
DecodeRequestReentrant ==
    /\ phase = "serving"
    /\ \E ver \in PROTOCOL_MODULES, kind \in {"Get", "GetNext", "Set"},
          oids \in OidLists :
         rx' = [present |-> TRUE, ver |-> ver, kind |-> kind, oids |-> oids]
    /\ tx' = NoReply
    /\ io' = <<>>
    /\ before' = mib_handlers
    /\ UNCHANGED <<phase, config, mib_handlers, mib_handlers_idx, backend>>
    /\ UNCHANGED pipe

\* snmp_callback is entered with the next datagram and decodes it; the
\* response starts with no bindings.
DecodeRequest ==
    /\ phase = "serving"
    /\ ~rx.present
    /\ \E ver \in PROTOCOL_MODULES, kind \in {"Get", "GetNext", "Set"},
          oids \in OidLists :
         rx' = [present |-> TRUE, ver |-> ver, kind |-> kind, oids |-> oids]
    /\ tx' = NoReply
    /\ io' = <<>>
    /\ before' = mib_handlers
    /\ UNCHANGED <<phase, config, mib_handlers, mib_handlers_idx, backend>>
    /\ UNCHANGED pipe

\* Faulty variant, for sensitivity of the properties: with the device
\* unreachable the handler call never returns.
ServeBindingBlocking ==
    /\ backend.up
    /\ rx.present /\ ~tx.present
    /\ rx.kind \in {"Get", "GetNext"}
    /\ Len(io) < Len(rx.oids)
    /\ LET error_index == Len(io) + 1
           acc == [handlers |-> mib_handlers, var_binds |-> tx.var_binds,
                   pending_errors |-> tx.end_of_mib, calls |-> io]
       IN  \E done \in {IF rx.kind = "GetNext"
                        THEN GetNextBind(acc, rx.oids[error_index], error_index)
                        ELSE GetBind(acc, rx.oids[error_index], error_index)} :
               /\ mib_handlers' = done.handlers
               /\ tx' = [tx EXCEPT !.var_binds = done.var_binds,
                                   !.end_of_mib = done.pending_errors]
               /\ io' = done.calls
    /\ UNCHANGED <<phase, config, mib_handlers_idx, backend, rx, before>>
    /\ UNCHANGED pipe

\* One iteration of the loop over the request's bindings: the next binding
\* in request order is looked up and its handler called, reads included.
ServeBinding ==
    /\ rx.present /\ ~tx.present
    /\ rx.kind \in {"Get", "GetNext"}
    /\ Len(io) < Len(rx.oids)
    /\ LET error_index == Len(io) + 1
           acc == [handlers |-> mib_handlers, var_binds |-> tx.var_binds,
                   pending_errors |-> tx.end_of_mib, calls |-> io]
       IN  \E done \in {IF rx.kind = "GetNext"
                        THEN GetNextBind(acc, rx.oids[error_index], error_index)
                        ELSE GetBind(acc, rx.oids[error_index], error_index)} :
               /\ mib_handlers' = done.handlers
               /\ tx' = [tx EXCEPT !.var_binds = done.var_binds,
                                   !.end_of_mib = done.pending_errors]
               /\ io' = done.calls
    /\ UNCHANGED <<phase, config, mib_handlers_idx, backend, rx, before>>
    /\ UNCHANGED pipe

\* set_varbinds, the pending errors and send_message: the reply leaves.
SendReply ==
    /\ rx.present /\ ~tx.present
    /\ rx.kind \in {"Get", "GetNext"} => Len(io) = Len(rx.oids)
    /\ tx' = [tx EXCEPT !.present = TRUE, !.ver = rx.ver,
                        !.error_status = IF rx.kind \in {"Get", "GetNext"}
                                         THEN "noError" ELSE "genErr"]
    /\ UNCHANGED <<phase, config, mib_handlers, mib_handlers_idx, backend, rx,
                   io, before>>
    /\ UNCHANGED pipe

\* The callback returns after the reply was sent.
ReturnToIdle ==
    /\ tx.present
    /\ Delivered

NextSerial ==
    \/ Startup
    \/ DecodeRequest
    \/ ServeBinding
    \/ SendReply
    \/ ReturnToIdle
    \/ BackendDown
    \/ BackendUp

SpecSerial == InitSerial /\ [][NextSerial]_vars

\* The stepwise callback under one configuration, with progress.
InitFairSerial == InitWith({ConfigA})

\* The callback is running code: once entered it goes on binding by binding,
\* each client call returning within the configured timeout, sends the reply
\* and returns.  Datagrams arrive, and the device comes and goes, as they
\* please.
FairSpecSerial ==
    /\ InitFairSerial
    /\ [][NextSerial]_vars
    /\ WF_vars(ServeBinding)
    /\ WF_vars(SendReply)
    /\ WF_vars(ReturnToIdle)

\* ------------------------------------------- the pipeline specification
\* The value pipeline of one handler on one raw value, a stage at a time:
\* raw -> typed -> business value -> SNMP value.
\* The values one 16-bit register can hold.
Words == 0..65535
\* Raw values at and around the limits of the data types.
RawSamples == {0, 1, 235, 32767, 32768, 40000, 65535}
LongSamples == {PyInt(65536), PyInt(2147483646), PyInt(2147483647),
                PyLong(0), PyLong(1), PyLong(2147418112),
                PyLong(2147483646), PyLong(2147483647)}
\* The data_type tags; "bcd" is one the code does not know.
DataTypes == {"int16", "uint16", "int32", "uint32", "float32", "bcd"}
\* Multiply by 1.0, by 0.1 to one decimal place, by -0.1 to one decimal place.
Processings == {Direct, Multiply(1000, 0, 0), Multiply(100, 0, 1),
                Multiply(-100, 0, 1)}
\* The SNMP data_type tags; "Opaque" is one the code does not know.
SnmpDataTypes == {"Integer32", "Gauge32", "Counter32", "OctetString",
                  "Opaque"}

PipelineHandler(dt, dp, target) ==
    NewHandler(ModbusOID(<<1>>, ModbusConfig(1, 3, dt), dp, target))

\* The inputs followed: an int16 or uint16 entry on every word; every data
\* type, processing and target on the sampled words; every integer data
\* type on the sampled larger values.  A product of -0.0 is left out: the
\* thousandths carry no sign for zero.
PipelineInput(self, raw) ==
    pipe = [NoPipeline EXCEPT !.stage = "raw", !.self = self, !.raw = raw]

InitPipeline ==
    /\ phase = "boot"
    /\ config = ConfigA
    /\ mib_handlers = <<>>
    /\ mib_handlers_idx = <<>>
    /\ backend = [up |-> TRUE, regs |-> [r \in Regs |-> 235],
                  coils |-> Coils]
    /\ rx = NoDatagram
    /\ tx = NoReply
    /\ io = <<>>
    /\ before = <<>>
    /\ \/ \E dt \in {"int16", "uint16"}, r \in Words \ RawSamples :
             PipelineInput(PipelineHandler(dt, Direct, "Integer32"), PyInt(r))
       \/ \E dt \in DataTypes, dp \in Processings, target \in SnmpDataTypes,
             r \in RawSamples :
             /\ ~(r = 0 /\ dp.coefficient < 0)
             /\ PipelineInput(PipelineHandler(dt, dp, target), PyInt(r))
       \/ \E dt \in DataTypes \ {"float32"}, r \in LongSamples :
             PipelineInput(PipelineHandler(dt, Direct, "Integer32"), r)

\* _convert_raw_data_type on the raw value.
ConvertRawDataType ==
    /\ pipe.stage = "raw"
    /\ pipe' = [pipe EXCEPT
                   !.stage = "typed",
                   !.typed = convert_raw_data_type(pipe.self, pipe.raw)]
    /\ UNCHANGED <<phase, config, mib_handlers, mib_handlers_idx, backend, rx,
                   tx, io, before>>

\* _process_value on the raw value (for the values TLC computes with).
ProcessValue ==
    /\ pipe.stage = "typed"
    /\ pipe.typed.t # "long"
    /\ pipe' = [pipe EXCEPT
                   !.stage = "processed",
                   !.processed = process_value(pipe.self, pipe.raw)]
    /\ UNCHANGED <<phase, config, mib_handlers, mib_handlers_idx, backend, rx,
                   tx, io, before>>

\* _convert_to_snmp_value on the processed value.
ConvertToSnmpValue ==
    /\ pipe.stage = "processed"
    /\ pipe' = [pipe EXCEPT
                   !.stage = "snmp",
                   !.snmp = convert_to_snmp_value(pipe.self, pipe.processed)]
    /\ UNCHANGED <<phase, config, mib_handlers, mib_handlers_idx, backend, rx,
                   tx, io, before>>

NextPipeline ==
    \/ ConvertRawDataType
    \/ ProcessValue
    \/ ConvertToSnmpValue

SpecPipeline == InitPipeline /\ [][NextPipeline]_vars


\* ================================================================ claims
\* Lexicographic order on integer tuples, a strict prefix first.
RECURSIVE LexLess(_, _)
LexLess(a, b) ==
    IF a = <<>> THEN b # <<>>
    ELSE IF b = <<>> THEN FALSE
    ELSE IF Head(a) # Head(b) THEN Head(a) < Head(b)
    ELSE LexLess(Tail(a), Tail(b))

RegisteredPaths == {mib_handlers[i].name : i \in 1..Len(mib_handlers)}
Greater(q) == {p \in RegisteredPaths : LexLess(q, p)}
MinPath(G) == CHOOSE p \in G : \A r \in G : r = p \/ LexLess(p, r)
Range(s) == {s[i] : i \in 1..Len(s)}
Bindings == 1..Len(rx.oids)
Answered(kind) == tx.present /\ rx.kind = kind

\* C1: a GetNext binding for q is resolved to the entry whose path is the
\* least registered path strictly greater than q in lexicographic order, and
\* is reported as end-of-MIB exactly when no registered path is greater.
C1_SuccessorLookup ==
    Answered("GetNext") =>
        \A i \in Bindings :
            LET G == Greater(rx.oids[i])
            IN  IF G = {}
                THEN i \in Range(tx.end_of_mib) /\ io[i].h = 0
                ELSE /\ i \notin Range(tx.end_of_mib)
                     /\ io[i].h \in 1..Len(mib_handlers)
                     /\ mib_handlers[io[i].h].name = MinPath(G)
                     /\ tx.var_binds[i].name = MinPath(G)

\* A GetNext reply over three entries in which one queried path is itself
\* registered and has a successor, one is a strict prefix of its successor,
\* and one has no successor.
C1_Witness ==
    /\ Answered("GetNext")
    /\ Len(mib_handlers) = 3
    /\ \E i, j \in Bindings :
         /\ rx.oids[i] \in RegisteredPaths
         /\ Greater(rx.oids[i]) # {}
         /\ tx.var_binds[i].name # rx.oids[i]
         /\ Greater(rx.oids[j]) = {}
    /\ \E q \in PathUniverse, p \in RegisteredPaths :
         Len(q) < Len(p) /\ SubSeq(p, 1, Len(q)) = q /\ MinPath(Greater(q)) = p

\* C2: in a Get reply every requested path that is not registered is bound
\* to that path with Integer -99997, and the reply has no error status and
\* no error index, whatever its other bindings are.
C2_GetMiss ==
    Answered("Get") =>
        \A i \in Bindings :
            rx.oids[i] \notin RegisteredPaths =>
                /\ tx.var_binds[i] = [name |-> rx.oids[i],
                                      value |-> SnmpInteger(-99997)]
                /\ tx.error_status = "noError"
                /\ tx.end_of_mib = <<>>

\* A Get reply with a miss next to a binding whose backend read failed.
C2_Witness ==
    /\ Answered("Get")
    /\ Len(rx.oids) = 2
    /\ rx.oids[2] \notin RegisteredPaths
    /\ tx.var_binds[2].value = UndefinedOidValue
    /\ rx.oids[1] \in RegisteredPaths
    /\ tx.var_binds[1].value = ReadFailureValue

\* C3: in a GetNext reply every requested path without a successor is bound
\* to the original path unchanged, and the reply carries exactly one
\* end-of-MIB indicator per such binding, at the binding's 1-based position
\* among all bindings of the request.
C3_GetNextExhausted ==
    Answered("GetNext") =>
        LET exhausted == {i \in Bindings : Greater(rx.oids[i]) = {}}
        IN  /\ \A i \in exhausted :
                  tx.var_binds[i] = [name |-> rx.oids[i], value |-> SnmpNull]
            /\ Range(tx.end_of_mib) = exhausted
            /\ Len(tx.end_of_mib) = Cardinality(exhausted)

\* A GetNext reply whose first binding has a successor and whose second has
\* none: the indicator sits at position 2.
C3_Witness ==
    /\ Answered("GetNext")
    /\ Len(rx.oids) = 2
    /\ Greater(rx.oids[1]) # {}
    /\ Greater(rx.oids[2]) = {}
    /\ tx.end_of_mib = <<2>>
    /\ tx.var_binds[2].name = rx.oids[2]


\* ---- the entries a reply's bindings invoked, and the backend as it is
AnsweredRead == Answered("Get") \/ Answered("GetNext")
Invoked(i) == io[i].h # 0
Entry(i) == mib_handlers[io[i].h]
RegisterBound(h) == h.class = "ModbusOIDHandler" /\ h.modbus_config.present
BoundTo(i) == Invoked(i) /\ RegisterBound(Entry(i))

\* The causes of a failed read.
ClientUnavailable == config.modbus_type \notin {"TCP", "RTU"}
Unreachable == ~backend.up
UnsupportedSelector(h) == h.modbus_config.function_code \notin {1, 2, 3, 4}
ErrorReply(h) ==
    /\ h.modbus_config.function_code \in {3, 4}
    /\ backend.regs[h.modbus_config.register_address] = ExceptionResponse
\* What the device holds now at the entry's address.
FreshRaw(h) ==
    IF h.modbus_config.function_code \in {1, 2}
    THEN PyBool(backend.coils[h.modbus_config.register_address])
    ELSE PyInt(backend.regs[h.modbus_config.register_address])
\* The pipeline raises: a multiply descriptor without a coefficient, or a
\* negative number for an unsigned SNMP type.
EncodingRaises(h) ==
    /\ h.modbus_config.present
    /\ h.snmp_data_type \in {"Gauge32", "Counter32"}
    /\ process_value(h, FreshRaw(h)) # None
    /\ PyIntOf(process_value(h, FreshRaw(h))) < 0
PipelineRaises(h) ==
    \/ h.data_processing.type = "multiply" /\ ~h.data_processing.has_coefficient
    \/ EncodingRaises(h)
ReadFails(h) ==
    \/ ClientUnavailable
    \/ Unreachable
    \/ UnsupportedSelector(h)
    \/ ErrorReply(h)
    \/ PipelineRaises(h)

\* The transformed and encoded value of what the device holds now.
FreshValue(h) == convert_to_snmp_value(h, process_value(h, FreshRaw(h)))

\* C4: whenever the read of a register-bound entry fails for any cause
\* (no client, device unreachable, error reply, unsupported function code)
\* or its pipeline raises, the bound value is Integer -99998, whatever the
\* entry's configured SNMP type.
C4_ReadFailureSentinel ==
    AnsweredRead =>
        \A i \in Bindings :
            (BoundTo(i) /\ ReadFails(Entry(i))) =>
                tx.var_binds[i].value = SnmpInteger(-99998)

\* A failed read of an entry whose configured type is OctetString.
C4_Witness ==
    /\ AnsweredRead
    /\ \E i \in Bindings :
         /\ BoundTo(i)
         /\ Unreachable
         /\ Entry(i).snmp_data_type = "OctetString"
         /\ tx.var_binds[i].value = ReadFailureValue

\* C5: every binding that resolves to a register-bound entry makes a backend
\* attempt during that request, and when the read succeeds the bound value
\* is the transformed value of what the register holds at that moment, not
\* the value the entry retained from an earlier request.
C5_NoCaching ==
    AnsweredRead =>
        \A i \in Bindings :
            BoundTo(i) =>
                /\ (~ClientUnavailable /\ ~UnsupportedSelector(Entry(i))) =>
                       io[i].made.connect + io[i].made.read >= 1
                /\ ~ReadFails(Entry(i)) =>
                       /\ io[i].made.read = 1
                       /\ tx.var_binds[i].value = FreshValue(Entry(i))
                       /\ Entry(i).last_value
                             = process_value(Entry(i), FreshRaw(Entry(i)))

\* A second poll of the scaled register after it changed from 235 to 40000:
\* the entry had retained 23.5 and the reply binds 4000.
C5_Witness ==
    /\ AnsweredRead
    /\ \E i \in Bindings :
         /\ BoundTo(i)
         /\ before[io[i].h].last_value = PyFloat(23500)
         /\ backend.regs[Entry(i).modbus_config.register_address] = 40000
         /\ tx.var_binds[i].value = SnmpInteger(4000)

\* The value an entry produces from the device's state alone.
SoloValue(h) ==
    IF h.class = "SystemOIDHandler" THEN SystemCall(h).value
    ELSE IF ~h.modbus_config.present
    THEN convert_to_snmp_value(h, process_value(h, PyInt(1)))
    ELSE IF ReadFails(h) THEN SnmpInteger(-99998)
    ELSE FreshValue(h)

\* C6: in a request with paths bound to different entries, the failure of
\* one entry's read does not change the value of another: that value is
\* what its own entry produces from the device's state.
C6_SentinelIsolation ==
    AnsweredRead =>
        \A i, j \in Bindings :
            (/\ BoundTo(i) /\ Invoked(j)
             /\ io[i].h # io[j].h
             /\ tx.var_binds[i].value = SnmpInteger(-99998)) =>
                tx.var_binds[j].value = SoloValue(Entry(j))

\* A request whose first binding failed and whose second binding, of another
\* register-bound entry, carries a real value.
C6_Witness ==
    /\ AnsweredRead
    /\ Len(rx.oids) = 2
    /\ BoundTo(1) /\ BoundTo(2)
    /\ io[1].h # io[2].h
    /\ tx.var_binds[1].value = ReadFailureValue
    /\ tx.var_binds[2].value = SnmpOctetString("-25536")

\* The handler an entry was when the datagram arrived.
Before(i) == before[io[i].h]
ConnectsOf(k) == {i \in Bindings : io[i].h = k /\ io[i].made.connect > 0}

\* C7: a failed read leaves the entry's client object in place, and when the
\* device is reachable and answering again the next request for that path
\* connects the client if it is not connected (once) and binds the real
\* transformed value, not the failure value.
C7_Recovery ==
    AnsweredRead =>
        \A i \in Bindings :
            (/\ BoundTo(i)
             /\ Before(i).last_error = "read failed"
             /\ Before(i).modbus_client.present) =>
                /\ Entry(i).modbus_client.present
                /\ Entry(i).modbus_client.gen = Before(i).modbus_client.gen
                /\ ~ReadFails(Entry(i)) =>
                       /\ tx.var_binds[i].value = FreshValue(Entry(i))
                       /\ tx.var_binds[i].value # SnmpInteger(-99998)
                       /\ Entry(i).last_error = "None"
                       /\ Entry(i).modbus_client.connected
                       /\ Cardinality(ConnectsOf(io[i].h))
                             = IF Before(i).modbus_client.connected
                               THEN 0 ELSE 1
                       /\ \A c \in ConnectsOf(io[i].h) : io[c].made.connect = 1

\* The request after a failed one: the entry's client was left unconnected,
\* the device answers again, the client is connected and a real value bound.
C7_Witness ==
    /\ AnsweredRead
    /\ \E i \in Bindings :
         /\ BoundTo(i)
         /\ Before(i).last_error = "read failed"
         /\ Before(i).modbus_client.present
         /\ ~Before(i).modbus_client.connected
         /\ io[i].made.connect = 1
         /\ Entry(i).modbus_client.connected
         /\ tx.var_binds[i].value = SnmpInteger(23)

RECURSIVE SumConnects(_)
SumConnects(calls) ==
    IF calls = <<>> THEN 0
    ELSE Head(calls).made.connect + SumConnects(Tail(calls))
RECURSIVE SumReads(_)
SumReads(calls) ==
    IF calls = <<>> THEN 0
    ELSE Head(calls).made.read + SumReads(Tail(calls))

\* C8 as claimed: while the device is down every poll of a register-bound
\* path yields the failure value, and one request makes at most one connect
\* attempt and one read attempt in total.
C8_OneAttemptPerRequest ==
    (AnsweredRead /\ Unreachable) =>
        /\ \A i \in Bindings :
               BoundTo(i) => tx.var_binds[i].value = SnmpInteger(-99998)
        /\ SumConnects(io) <= 1
        /\ SumReads(io) <= 1

\* C8 as amended: while the device is down every poll of a register-bound
\* path yields the failure value, and each binding makes at most one connect
\* attempt and at most one read attempt (never both, never a retry).
C8_OneAttemptPerBinding ==
    (AnsweredRead /\ Unreachable) =>
        \A i \in Bindings :
            /\ BoundTo(i) => tx.var_binds[i].value = SnmpInteger(-99998)
            /\ io[i].made.connect + io[i].made.read <= 1

\* A request for two register-bound paths while the device is down: two
\* failure values and two connect attempts.
C8_Witness ==
    /\ AnsweredRead
    /\ Unreachable
    /\ Len(rx.oids) = 2
    /\ BoundTo(1) /\ BoundTo(2)
    /\ io[1].h # io[2].h
    /\ tx.var_binds[1].value = ReadFailureValue
    /\ tx.var_binds[2].value = ReadFailureValue
    /\ SumConnects(io) = 2

\* The client objects that exist.
Clients == {k \in 1..Len(mib_handlers) : mib_handlers[k].modbus_client.present}

\* C9 as claimed: at most one backend connection object exists for the one
\* configured backend, shared by all register-bound entries.
C9_SingleSharedConnection == Cardinality(Clients) <= 1

\* C10: no client exists until the first read attempt of a register-bound
\* entry creates it; an entry without a register never has a client and
\* makes no client call; and a client, once created, stays the same object
\* in every later step (also through shutdown, which only closes it).
C10_Step ==
    \A k \in 1..Len(mib_handlers') :
        LET old == IF k <= Len(mib_handlers)
                   THEN mib_handlers[k].modbus_client ELSE NoClient
            new == mib_handlers'[k].modbus_client
        IN  /\ (new.present /\ ~old.present) =>
                   /\ RegisterBound(mib_handlers'[k])
                   /\ ~rx.present /\ tx'.present
                   /\ \E i \in 1..Len(io') :
                          io'[i].h = k /\ io'[i].made.created
            /\ old.present => (new.present /\ new.gen = old.gen)
            /\ ~RegisterBound(mib_handlers'[k]) =>
                   /\ ~new.present
                   /\ \A i \in 1..Len(io') :
                          io'[i].h = k => io'[i].made = NoCalls

C10_LazyLifecycle == [][C10_Step]_vars

\* A reply in which a register-bound entry created its client on its first
\* read, an entry without a register was invoked and has none, and another
\* register-bound entry, not polled yet, has none either.
C10_Witness ==
    /\ AnsweredRead
    /\ \E i, j \in Bindings :
         /\ BoundTo(i)
         /\ ~Before(i).modbus_client.present
         /\ io[i].made.created
         /\ Entry(i).modbus_client.gen = 1
         /\ Invoked(j)
         /\ Entry(j).class = "ModbusOIDHandler"
         /\ ~Entry(j).modbus_config.present
         /\ ~Entry(j).modbus_client.present
         /\ tx.var_binds[j].value = SnmpInteger(1)
    /\ \E k \in 1..Len(mib_handlers) :
         RegisterBound(mib_handlers[k]) /\ k \notin Clients


\* An entry of the SNMP mapping that has no register.
Registerless(h) == h.class = "ModbusOIDHandler" /\ ~h.modbus_config.present

\* C11 as claimed: an invoked entry without a register makes no backend call
\* and its value is the constant 1 encoded in its configured SNMP type,
\* whatever its data-processing descriptor is.
C11_RegisterlessConstant ==
    AnsweredRead =>
        \A i \in Bindings :
            (Invoked(i) /\ Registerless(Entry(i))) =>
                /\ io[i].made = NoCalls
                /\ tx.var_binds[i].value
                      = convert_to_snmp_value(Entry(i), PyInt(1))


\* C12: a decoded request that is neither Get nor GetNext is answered with
\* error status genErr and no bindings; no entry is invoked (every handler
\* object is as it was) and no client is created, connected or read.
C12_UnsupportedKind ==
    (tx.present /\ rx.kind \notin {"Get", "GetNext"}) =>
        /\ tx.error_status = "genErr"
        /\ tx.var_binds = <<>>
        /\ tx.end_of_mib = <<>>
        /\ io = <<>>
        /\ mib_handlers = before

\* A Set request naming a register-bound path that has not been read yet,
\* answered with genErr while the entry still has no client.
C12_Witness ==
    /\ tx.present
    /\ rx.kind = "Set"
    /\ tx.error_status = "genErr"
    /\ \E k \in 1..Len(mib_handlers) :
         /\ RegisterBound(mib_handlers[k])
         /\ mib_handlers[k].name \in Range(rx.oids)
         /\ ~mib_handlers[k].modbus_client.present
         /\ mib_handlers[k].last_value = None


\* The path the i-th binding of the request resolves to: itself for Get, its
\* successor for GetNext (itself when it has none).
Resolution(i) ==
    IF rx.kind = "Get" \/ Greater(rx.oids[i]) = {} THEN rx.oids[i]
    ELSE MinPath(Greater(rx.oids[i]))
\* Whether an entry answers the i-th binding.
Resolves(i) ==
    IF rx.kind = "Get" THEN rx.oids[i] \in RegisteredPaths
    ELSE Greater(rx.oids[i]) # {}

\* C13: a Get or GetNext reply has as many bindings as the request has paths,
\* and its i-th binding is the resolution of the i-th requested path: it
\* carries that path's exact match or successor, and the value its entry
\* produces from the device's state whatever the other bindings are.
C13_ReplyOrder ==
    AnsweredRead =>
        /\ Len(tx.var_binds) = Len(rx.oids)
        /\ Len(io) = Len(rx.oids)
        /\ \A i \in Bindings :
              /\ tx.var_binds[i].name = Resolution(i)
              /\ Invoked(i) <=> Resolves(i)
              /\ Invoked(i) =>
                    /\ Entry(i).name = Resolution(i)
                    /\ tx.var_binds[i].value = SoloValue(Entry(i))

\* A Get reply for two registered paths asked for in descending order, and
\* answered in that order with two different values.
C13_Witness ==
    /\ Answered("Get")
    /\ Len(rx.oids) = 2
    /\ LexLess(rx.oids[2], rx.oids[1])
    /\ Invoked(1) /\ Invoked(2)
    /\ tx.var_binds[1].name = rx.oids[1]
    /\ tx.var_binds[2].name = rx.oids[2]
    /\ tx.var_binds[1].value # tx.var_binds[2].value


\* The paths a configuration declares, system entries first.
Declared(cfg) ==
    [i \in 1..Len(cfg.system) |-> cfg.system[i].oid]
    \o [i \in 1..Len(cfg.snmp) |-> cfg.snmp[i].oid]
HasDuplicates(cfg) ==
    \E i, j \in 1..Len(Declared(cfg)) :
        i # j /\ Declared(cfg)[i] = Declared(cfg)[j]

\* C14 as claimed: a configuration that declares a path twice never reaches
\* the serving phase, and whenever requests are served the registered paths
\* are pairwise distinct and the exact-match index holds every entry of the
\* sorted list.
C14_DuplicateRejection ==
    /\ HasDuplicates(config) => (phase = "boot" /\ ~tx.present)
    /\ phase = "serving" =>
          /\ \A i, j \in 1..Len(mib_handlers) :
                i # j => mib_handlers[i].name # mib_handlers[j].name
          /\ {mib_handlers_idx[n] : n \in DOMAIN mib_handlers_idx}
                = 1..Len(mib_handlers)


\* C15: once the registry is built, of any two entries with distinct paths
\* the one placed first is the one whose path is lexicographically less (a
\* strict prefix before its extensions), whatever the order of declaration
\* and whether the entries are system or register entries.
C15_OrderingInvariant ==
    phase # "boot" =>
        \A i, j \in 1..Len(mib_handlers) :
            mib_handlers[i].name # mib_handlers[j].name =>
                (i < j <=> LexLess(mib_handlers[i].name, mib_handlers[j].name))

\* A registry of three entries declared in another order than the sorted
\* one, where a system entry extends the path of a register entry that
\* precedes it and is followed by another register entry.
C15_Witness ==
    /\ phase = "serving"
    /\ Len(mib_handlers) = 3
    /\ Declared(config) # [i \in 1..3 |-> mib_handlers[i].name]
    /\ mib_handlers[1].name = <<1>>
    /\ mib_handlers[2].name = <<1, 1>>
    /\ mib_handlers[1].class = "ModbusOIDHandler"
    /\ mib_handlers[2].class = "SystemOIDHandler"
    /\ mib_handlers[3].class = "ModbusOIDHandler"


\* The configuration errors: a backend type for which no client can be
\* made, a declaration that cannot be built.
UnsupportedBackend(cfg) == cfg.modbus_type \notin {"TCP", "RTU"}
Unbuildable(cfg) ==
    \E i \in 1..Len(Declared(cfg)) : Declared(cfg)[i] = <<>>
ConfigurationError(cfg) == UnsupportedBackend(cfg) \/ Unbuildable(cfg)

\* C16 as claimed: a configuration with an unsupported backend type or a
\* declaration that cannot be built never reaches the serving phase; while
\* requests are served every declared entry is registered, and no binding
\* carries the failure value because no client could be made.
C16_ConfigErrorsAtStartup ==
    /\ ConfigurationError(config) => (phase = "boot" /\ ~tx.present)
    /\ phase = "serving" => Len(mib_handlers) = Len(Declared(config))
    /\ AnsweredRead =>
          \A i \in Bindings :
              (BoundTo(i) /\ ClientUnavailable) =>
                  tx.var_binds[i].value # SnmpInteger(-99998)


\* C17 as claimed: the integer bound for a failed read of a register-bound
\* entry is the error_value of the configuration.
C17_ConfiguredSentinel ==
    AnsweredRead =>
        \A i \in Bindings :
            (BoundTo(i) /\ ReadFails(Entry(i))) =>
                tx.var_binds[i].value = SnmpInteger(config.error_value)


\* The invocations that raise inside a handler.
SystemRaises(h) ==
    /\ h.class = "SystemOIDHandler"
    /\ \/ /\ h.type = "fixed_value"
          /\ h.snmp_data_type = "Integer"
          /\ h.value.t # "int"
       \/ /\ h.type = "utc_time"
          /\ UtcTimeRaises(config.timezone_offset)
ModbusRaises(h) ==
    /\ h.class = "ModbusOIDHandler"
    /\ IF h.modbus_config.present THEN ReadFails(h) ELSE PipelineRaises(h)
Decoded ==
    rx.present /\ rx.ver \in PROTOCOL_MODULES /\ rx.kind # "malformed"

Terminated == phase \in {"stopped", "killed"}
\* The clients whose connection is open.
OpenClients ==
    {k \in 1..Len(mib_handlers) :
        mib_handlers[k].modbus_client.present
        /\ mib_handlers[k].modbus_client.connected}

\* C19 as claimed: when the process has ended on a termination signal
\* (SIGINT or SIGTERM) the shutdown hook has run, main() has returned through
\* its finally clause, and no client is left with an open connection.
C19_Shutdown ==
    Terminated => (phase = "stopped" /\ OpenClients = {})


\* The datagram handled last could not be decoded.
Dropped ==
    rx.present /\ (rx.ver \notin PROTOCOL_MODULES \/ rx.kind = "malformed")

\* C20: a step that handles a datagram of an unknown version or with a
\* malformed message sends no reply, invokes no entry, makes no client call
\* and leaves the registry, every handler and client and the serving phase
\* as they were; the step after it takes the dispatcher back to idle, still
\* serving, with the registry unchanged.
C20_Step ==
    /\ Dropped' =>
          /\ ~rx.present
          /\ ~tx'.present
          /\ io' = <<>>
          /\ mib_handlers' = mib_handlers
          /\ mib_handlers_idx' = mib_handlers_idx
          /\ phase' = "serving"
    /\ Dropped =>
          /\ rx' = NoDatagram
          /\ mib_handlers' = mib_handlers
          /\ mib_handlers_idx' = mib_handlers_idx
          /\ phase' = "serving"

C20_DecodeFailure == [][C20_Step]_vars

\* A malformed datagram was dropped while a register entry holds a connected
\* client and its last value: nothing was sent and the handlers are as they
\* were when it arrived.
C20_Witness ==
    /\ Dropped
    /\ rx.kind = "malformed"
    /\ ~tx.present
    /\ mib_handlers = before
    /\ \E k \in 1..Len(mib_handlers) :
         /\ mib_handlers[k].modbus_client.connected
         /\ mib_handlers[k].last_value # None


\* ---------------------------------------------------------------- C21
Reading == rx.present /\ rx.kind \in {"Get", "GetNext"}

\* C21: in every step of the stepwise callback, a datagram is taken up
\* only when no request is being served; the callback returns only after
\* the reply was sent, and the reply is sent only after every binding was
\* served; a step serves exactly the next binding in the order of the
\* requested paths, leaves the earlier bindings as they are and makes at
\* most one backend read.
C21_Step ==
    /\ (rx'.present /\ (rx' # rx \/ Len(io') < Len(io))) => ~rx.present
    /\ (rx.present /\ ~rx'.present) => tx.present
    /\ (tx'.present /\ ~tx.present) =>
           /\ io' = io
           /\ Reading => Len(io) = Len(rx.oids)
    /\ (rx' = rx /\ io' # io) =>
           /\ Reading /\ ~tx.present
           /\ Len(io') = Len(io) + 1
           /\ \A k \in 1..Len(io) : io'[k] = io[k]
           /\ SumReads(io') <= SumReads(io) + 1
           /\ Len(tx'.var_binds) = Len(io')
           /\ \A k \in 1..Len(io) : tx'.var_binds[k] = tx.var_binds[k]
           /\ tx'.var_binds[Len(io')].name = Resolution(Len(io'))
C21_RequestAtATime == [][C21_Step]_vars

\* A request of two paths with the first binding served by a backend read
\* and the second not yet begun.
C21_Witness ==
    /\ Reading /\ ~tx.present
    /\ Len(rx.oids) = 2 /\ Len(io) = 1
    /\ io[1].made.read = 1


\* ---------------------------------------------------------------- C22
Typed == pipe.stage \in {"typed", "processed", "snmp"}
DataTypeOf(self) == self.modbus_config.data_type

\* C22: the typed value of a raw value r is, for an int16 entry and r in
\* 0..65535, r up to 32767 and r - 65536 above it, always within
\* -32768..32767; for an int32 entry and r in 0..4294967295, r up to
\* 2147483647 and r - 4294967296 above it; for uint16, uint32 and an
\* unrecognized tag, r itself.
C22_SignedReinterpretation ==
    Typed =>
        LET data_type == DataTypeOf(pipe.self)
            r == pipe.raw
        IN  /\ (data_type = "int16" /\ r.t = "int" /\ r.v \in Words) =>
                   /\ pipe.typed.t = "int"
                   /\ pipe.typed.v = IF r.v <= 32767 THEN r.v ELSE r.v - 65536
                   /\ pipe.typed.v \in -32768..32767
            /\ data_type = "int32" =>
                   IF r.t = "int" THEN pipe.typed = r
                   ELSE /\ pipe.typed.t = "int"
                        /\ pipe.typed.v + 2147483647 = r.v - 1
            /\ data_type \in {"uint16", "uint32", "bcd"} => pipe.typed = r

\* An int16 entry on the raw value 32768.
C22_Witness ==
    /\ Typed
    /\ DataTypeOf(pipe.self) = "int16"
    /\ pipe.raw = PyInt(32768)
    /\ pipe.typed = PyInt(-32768)


\* ---------------------------------------------------------------- C23
Encoded == pipe.stage = "snmp"
\* A Multiply descriptor with coefficient 1, offset 0 and no decimal places.
MultiplyIdentity(self) == self.data_processing = Multiply(1000, 0, 0)
\* The same entry with the Direct descriptor, and what it encodes.
DirectTwin(self) == [self EXCEPT !.data_processing = Direct]
DirectEncoded ==
    convert_to_snmp_value(DirectTwin(pipe.self),
                          process_value(DirectTwin(pipe.self), pipe.raw))

\* C23 as claimed: an entry that multiplies by 1 with offset 0 and no
\* decimal places encodes, for Integer and Text targets alike, the value
\* the Direct descriptor encodes from the same raw value.
C23_MultiplyIdentity ==
    (Encoded /\ MultiplyIdentity(pipe.self)
     /\ pipe.self.snmp_data_type \in {"Integer32", "OctetString"}) =>
        pipe.snmp = DirectEncoded

\* C23 as the code has it: such an entry's business value is the typed raw
\* value as a float; an Integer target encodes what Direct encodes, and a
\* Text target encodes the value with two fraction digits, which is what
\* Direct encodes only when the typed value is a float itself.
C23_MultiplyIdentityNumeric ==
    (Encoded /\ MultiplyIdentity(pipe.self)) =>
        /\ pipe.processed.t = "float"
        /\ pipe.processed.v = 1000 * (IF pipe.typed.t = "float"
                                      THEN pipe.typed.v \div 1000
                                      ELSE pipe.typed.v)
        /\ pipe.self.snmp_data_type = "Integer32" => pipe.snmp = DirectEncoded
        /\ pipe.self.snmp_data_type = "OctetString" =>
               /\ pipe.snmp = SnmpOctetString(Format2f(pipe.processed.v))
               /\ (pipe.snmp = DirectEncoded) <=> (pipe.typed.t = "float")

\* A uint16 entry with a Text target on the raw value 235: "235.00", where
\* Direct gives "235".
C23_Witness ==
    /\ Encoded /\ MultiplyIdentity(pipe.self)
    /\ DataTypeOf(pipe.self) = "uint16"
    /\ pipe.self.snmp_data_type = "OctetString"
    /\ pipe.raw = PyInt(235)
    /\ pipe.snmp = SnmpOctetString("235.00")
    /\ DirectEncoded = SnmpOctetString("235")


\* ---------------------------------------------------------------- C24
\* n is the float of m thousandths truncated toward zero.
Truncation(m, n) ==
    IF m >= 0 THEN n >= 0 /\ n * 1000 <= m /\ m < (n + 1) * 1000
    ELSE n <= 0 /\ n * 1000 >= m /\ m > (n - 1) * 1000
\* The float of m thousandths (a multiple of ten) with two fraction digits.
TwoFractionDigits(m) ==
    LET a == IF m < 0 THEN -m ELSE m
    IN  (IF m < 0 THEN "-" ELSE "") \o IntStr(a \div 1000) \o "."
        \o Digit((a % 1000) \div 100) \o Digit((a % 100) \div 10)
\* The SNMP type built for a numeric target.
KindOf(snmp_data_type) ==
    IF snmp_data_type = "Gauge32" THEN "Gauge"
    ELSE IF snmp_data_type = "Counter32" THEN "Counter" ELSE "Integer"
Fractional == Encoded /\ pipe.processed.t = "float"
TextEncoding ==
    (Encoded /\ pipe.self.snmp_data_type = "OctetString") =>
        /\ pipe.snmp.type = "OctetString"
        /\ pipe.processed.t = "float" =>
               pipe.snmp.text = TwoFractionDigits(pipe.processed.v)
        /\ pipe.processed.t = "int" =>
               pipe.snmp.text = IntStr(pipe.processed.v)

Stage ==
    IF ~rx.present THEN "Idle"
    ELSE IF tx.present THEN "EncodeReply"
    ELSE IF io = <<>> THEN "DecodeRequest"
    ELSE "handler"
C25_Step ==
    /\ Stage' # Stage =>
           <<Stage, Stage'>> \in
               {<<"Idle", "DecodeRequest">>, <<"DecodeRequest", "handler">>,
                <<"DecodeRequest", "EncodeReply">>,
                <<"handler", "EncodeReply">>, <<"EncodeReply", "Idle">>}
    /\ (tx.present /\ tx'.present) => (tx' = tx /\ rx' = rx)
    /\ (tx.present /\ ~tx'.present) => ~rx'.present

WalkStep == Answered("GetNext") /\ Len(rx.oids) = 1

\* C26 as claimed, step by step: a walk that starts below every registered
\* path gets the first entry of the registry; a step from the path of the
\* k-th entry gets the (k+1)-th entry, whose path is greater; a step from
\* the path of the last entry gets end-of-MIB.  So the walk returns each of
\* the registry's entries once, in ascending order, and ends after as many
\* successful steps as the registry has entries.
C26_WalkCompleteness ==
    WalkStep =>
        LET q == rx.oids[1]
            n == Len(mib_handlers)
        IN  /\ (n > 0 /\ \A k \in 1..n : LexLess(q, mib_handlers[k].name)) =>
                   io[1].h = 1
            /\ \A k \in 1..n :
                   q = mib_handlers[k].name =>
                       IF k < n
                       THEN /\ io[1].h = k + 1
                            /\ tx.var_binds[1].name = mib_handlers[k + 1].name
                            /\ LexLess(q, tx.var_binds[1].name)
                       ELSE /\ io[1].h = 0
                            /\ 1 \in Range(tx.end_of_mib)


\* ---------------------------------------------------------------- C27
\* C27 as claimed: the path p that a GetNext binding resolves to is
\* registered, the entry called for it is the entry the exact-match index
\* gives for p, and the value bound is the one a Get of p would have bound
\* on the same device state.
C27_GetNextAgreesWithGet ==
    Answered("GetNext") =>
        \A i \in Bindings :
            Invoked(i) =>
                LET p == tx.var_binds[i].name
                IN  /\ p \in RegisteredPaths
                    /\ p \in DOMAIN mib_handlers_idx
                    /\ mib_handlers_idx[p] = io[i].h
                    /\ tx.var_binds[i].value =
                           Call(before[mib_handlers_idx[p]]).value


\* ---------------------------------------------------------------- C28
\* The i-th binding is the last call of its handler in the request.
LastCall(i) ==
    /\ Invoked(i)
    /\ Entry(i).class = "ModbusOIDHandler"
    /\ \A j \in Bindings : j > i => io[j].h # io[i].h

\* C28 as claimed: after a call of a backend-mapped entry its last_error is
\* set exactly when the value it returned is the read-failure value, and its
\* last_value is empty exactly then, a failure of the encoding included.
C28_ObservabilityState ==
    AnsweredRead =>
        \A i \in Bindings :
            LastCall(i) =>
                /\ (Entry(i).last_error # "None")
                       <=> (tx.var_binds[i].value = ReadFailureValue)
                /\ (Entry(i).last_value = None)
                       <=> (tx.var_binds[i].value = ReadFailureValue)

====
